---- MODULE Spec2Model ----
(***************************************************************************)
(* tapyrus-setup `aggregate`: AggregateCommand::execute and the Display of *)
(* AggregateResponse (src/src/cli/setup/aggregate.rs).                     *)
(*                                                                         *)
(* The curve is modelled by a cyclic group of prime order GroupOrder: a    *)
(* point is written as its discrete logarithm to the generator (0 is the   *)
(* point at infinity), so point addition is addition modulo GroupOrder and *)
(* base-point multiplication of a scalar s is the point s.                 *)
(***************************************************************************)
EXTENDS Integers, Sequences, FiniteSets, TLC

VARIABLES matches, response, index, previous, display_response, display_text

vars == <<matches, response, index, previous, display_response, display_text>>

\* Largest number of --vss values of one invocation.
MaxVss == 2

\* Order of the curve group (the modulus of FE).
GroupOrder == 5

\* Width of the secret in the rendering: "{:0>64}".
HexWidth == 64

----------------------------------------------------------------------------
(* Curve primitives (curv, tapyrus::PublicKey)                             *)

FE == 0..(GroupOrder - 1)

ValidPoints == 1..(GroupOrder - 1)

Generator == 1

ScalarAdd(a, b) == (a + b) % GroupOrder

PointAdd(P, Q) == (P + Q) % GroupOrder

ScalarMul(P, s) == (P * s) % GroupOrder

\* P and -P share the x coordinate and differ in the parity of y.
XCoord(P) == IF P <= GroupOrder - P THEN P ELSE GroupOrder - P

YCoord(P) == P

\* Compressed encoding: the parity prefix (02 / 03), then x.
serialize(P) == <<2 + (YCoord(P) % 2), XCoord(P)>>

\* Uncompressed encoding: the prefix 04, then x and y.
serialize_uncompressed(P) == <<4, XCoord(P), YCoord(P)>>

\* GE::pk_to_key_slice: the uncompressed key slice of a point; the point at
\* infinity has no key encoding.
pk_to_key_slice(P) == IF P = 0 THEN <<0>> ELSE serialize_uncompressed(P)

NoKey == [compressed |-> FALSE, key |-> 0]

\* PublicKey::from_slice: the length and prefix of the slice decide the
\* `compressed` flag of the key; anything that is no point is an error.
from_slice(bytes) ==
    IF \E P \in ValidPoints : serialize(P) = bytes
    THEN [ok |-> TRUE,
          pk |-> [compressed |-> TRUE,
                  key |-> CHOOSE P \in ValidPoints : serialize(P) = bytes]]
    ELSE IF \E P \in ValidPoints : serialize_uncompressed(P) = bytes
    THEN [ok |-> TRUE,
          pk |-> [compressed |-> FALSE,
                  key |-> CHOOSE P \in ValidPoints : serialize_uncompressed(P) = bytes]]
    ELSE [ok |-> FALSE, pk |-> NoKey]

\* Byte-lexicographic order of two encodings.
RECURSIVE LexLess(_, _)
LexLess(a, b) ==
    IF a = <<>> THEN b # <<>>
    ELSE IF b = <<>> THEN FALSE
    ELSE IF Head(a) # Head(b) THEN Head(a) < Head(b)
    ELSE LexLess(Tail(a), Tail(b))

----------------------------------------------------------------------------
(* The private key argument                                                *)

WifChecksum(k) == (k * 3 + 1) % 7

\* The WIF string of the secret k (compressed form): version, key, checksum.
ToWif(k) == <<128, k, 1, WifChecksum(k)>>

\* PrivateKey::from_wif(key).ok()
from_wif(s) ==
    IF /\ Len(s) = 4
       /\ s[1] = 128
       /\ s[2] \in ValidPoints
       /\ s[3] = 1
       /\ s[4] = WifChecksum(s[2])
    THEN [ok |-> TRUE, key |-> s[2]]
    ELSE [ok |-> FALSE, key |-> 0]

\* PublicKey::from_private_key
from_private_key(k) == [compressed |-> TRUE, key |-> ScalarMul(Generator, k)]

----------------------------------------------------------------------------
(* Vss contributions                                                       *)

NoVss == [sender_public_key |-> NoKey, commitments |-> <<>>, shares |-> <<>>]

\* Vss::from_str: a structural check only. The sender key and every
\* commitment must decode as compressed points, every share must be a scalar,
\* and there is at least one commitment and one share.
from_str(s) ==
    IF /\ from_slice(s.sender).ok
       /\ from_slice(s.sender).pk.compressed
       /\ Len(s.commitments) >= 1
       /\ \A k \in 1..Len(s.commitments) :
              from_slice(s.commitments[k]).ok /\ from_slice(s.commitments[k]).pk.compressed
       /\ Len(s.shares) >= 1
       /\ \A i \in 1..Len(s.shares) : s.shares[i] \in FE
    THEN [ok |-> TRUE,
          vss |-> [sender_public_key |-> from_slice(s.sender).pk,
                   commitments |-> [k \in 1..Len(s.commitments) |->
                                        from_slice(s.commitments[k]).pk.key],
                   shares |-> s.shares]]
    ELSE [ok |-> FALSE, vss |-> NoVss]

\* Horner evaluation of a coefficient sequence at x, modulo the group order:
\* on commitments it is the evaluation "in the exponent".
RECURSIVE Horner(_, _)
Horner(coeffs, x) ==
    IF coeffs = <<>> THEN 0
    ELSE (Head(coeffs) + x * Horner(Tail(coeffs), x)) % GroupOrder

\* VerifiableSS::validate_share: base_point * share = sum_k commitments[k] * index^k
validate_share(commitments, share, idx) ==
    ScalarMul(Generator, share) = Horner(commitments, idx)

----------------------------------------------------------------------------
(* Helpers of the setup commands                                           *)

\* Insert a key into a list sorted by the compressed encoding.
RECURSIVE InsertKey(_, _)
InsertKey(pk, sorted) ==
    IF sorted = <<>> THEN <<pk>>
    ELSE IF LexLess(serialize(pk.key), serialize(Head(sorted).key))
         THEN <<pk>> \o sorted
         ELSE <<Head(sorted)>> \o InsertKey(pk, Tail(sorted))

\* NodeParameters::sort_publickey: byte order of the compressed encodings.
RECURSIVE sort_publickey(_)
sort_publickey(keys) ==
    IF keys = <<>> THEN <<>>
    ELSE InsertKey(keys[Len(keys)], sort_publickey(SubSeq(keys, 1, Len(keys) - 1)))

\* Position (from 1) of the first element of keys equal to pk, 0 if none.
RECURSIVE Position(_, _)
Position(pk, keys) ==
    IF keys = <<>> THEN 0
    ELSE IF Head(keys) = pk THEN 1
    ELSE IF Position(pk, Tail(keys)) = 0 THEN 0
    ELSE 1 + Position(pk, Tail(keys))

\* index_of: the position, from 1, of the key of private_key in public_keys.
index_of(private_key, public_keys) ==
    LET pos == Position(from_private_key(private_key), public_keys)
    IN  [found |-> pos # 0, index |-> pos]

\* vss_to_shared_secret_map: the map from each sender key to the commitments
\* and shares of that sender's contribution.
vss_to_shared_secret_map(vss_vec, params) ==
    [pk \in {vss_vec[i].sender_public_key : i \in 1..Len(vss_vec)} |->
        LET c == CHOOSE i \in 1..Len(vss_vec) : vss_vec[i].sender_public_key = pk
        IN  [parameters |-> params,
             commitments |-> vss_vec[c].commitments,
             shares |-> vss_vec[c].shares]]

RECURSIVE SetToSeq(_)
SetToSeq(S) ==
    IF S = {} THEN <<>>
    ELSE LET k == CHOOSE k \in S : TRUE IN <<k>> \o SetToSeq(S \ {k})

\* The keys of a shared secret map, in their order.
MapKeys(vss_map) == sort_publickey(SetToSeq(DOMAIN vss_map))

RECURSIVE SumShares(_, _, _)
SumShares(vss_map, keys, idx) ==
    IF keys = <<>> THEN 0
    ELSE ScalarAdd(vss_map[Head(keys)].shares[idx], SumShares(vss_map, Tail(keys), idx))

RECURSIVE SumConstantTerms(_, _)
SumConstantTerms(vss_map, keys) ==
    IF keys = <<>> THEN 0
    ELSE PointAdd(vss_map[Head(keys)].commitments[1], SumConstantTerms(vss_map, Tail(keys)))

\* Sign::verify_vss_and_construct_key: every entry is checked against its
\* commitments at idx; only then are the shares and constant terms summed.
verify_vss_and_construct_key(vss_map, idx) ==
    LET keys == MapKeys(vss_map)
        failing == {n \in 1..Len(keys) :
                       ~validate_share(vss_map[keys[n]].commitments,
                                       vss_map[keys[n]].shares[idx], idx)}
    IN  IF failing # {}
        THEN [ok |-> FALSE, error |-> "InvalidShare",
              sender |-> keys[CHOOSE n \in failing : \A m \in failing : n <= m].key,
              y |-> 0, x_i |-> 0]
        ELSE [ok |-> TRUE, error |-> "", sender |-> 0,
              y |-> SumConstantTerms(vss_map, keys),
              x_i |-> SumShares(vss_map, keys, idx)]

----------------------------------------------------------------------------
(* AggregateCommand::execute                                               *)

NoResponse ==
    [kind |-> "None", error |-> "", arg |-> "", sender |-> 0,
     aggregated_public_key |-> NoKey, node_shared_secret |-> 0]

\* AggregateResponse::new, boxed in Ok
AggregateResponse_new(aggregated_public_key, node_shared_secret) ==
    [kind |-> "Ok", error |-> "", arg |-> "", sender |-> 0,
     aggregated_public_key |-> aggregated_public_key,
     node_shared_secret |-> node_shared_secret]

Err(error, arg, sender) ==
    [kind |-> "Err", error |-> error, arg |-> arg, sender |-> sender,
     aggregated_public_key |-> NoKey, node_shared_secret |-> 0]

\* The process aborts: execute returns nothing to its caller.
Abort ==
    [kind |-> "Abort", error |-> "", arg |-> "", sender |-> 0,
     aggregated_public_key |-> NoKey, node_shared_secret |-> 0]

\* private_key: the --private-key value, decoded.
private_key_of(m) == from_wif(m.private_key)

\* A bug of vss_vec_of: the strings that do not parse are skipped.
vss_vec_skipping(m) ==
    LET good == SelectSeq(m.vss, LAMBDA str : from_str(str).ok)
    IN  [ok |-> TRUE, vss_vec |-> [i \in 1..Len(good) |-> from_str(good[i]).vss]]

\* vss_vec: every --vss value parsed, or the error of one that does not parse.
vss_vec_of(m) ==
    LET parsed == [i \in 1..Len(m.vss) |-> from_str(m.vss[i])]
    IN  [ok |-> \A i \in 1..Len(m.vss) : parsed[i].ok,
         vss_vec |-> [i \in 1..Len(m.vss) |-> parsed[i].vss]]

\* A bug of public_keys_of: the sender keys are left in the order given.
public_keys_unsorted(vss_vec) ==
    [i \in 1..Len(vss_vec) |-> vss_vec[i].sender_public_key]

\* public_keys: the sender key of every contribution, sorted.
public_keys_of(vss_vec) ==
    sort_publickey([i \in 1..Len(vss_vec) |-> vss_vec[i].sender_public_key])

\* A bug of vss_map_of: the first contribution is left out of the map.
vss_map_without_first(vss_vec) ==
    vss_to_shared_secret_map(Tail(vss_vec),
                             [threshold |-> 1, share_count |-> Len(vss_vec)])

\* vss_map: the map of all contributions; the threshold is not used.
vss_map_of(vss_vec) ==
    vss_to_shared_secret_map(vss_vec,
                             [threshold |-> 1, share_count |-> Len(vss_vec)])

\* A bug of public_key_of: the key decoded from the slice is returned as it is.
public_key_not_converted(y) == from_slice(pk_to_key_slice(y))

\* A bug of public_key_of: the compressed form is given the prefix 02 always.
public_key_even_prefix(y) ==
    LET uncompressed == from_slice(pk_to_key_slice(y))
    IN  IF ~uncompressed.ok THEN uncompressed
        ELSE from_slice(<<2, XCoord(uncompressed.pk.key)>>)

\* public_key: y decoded from its key slice, then from its compressed
\* encoding; either decoding may fail.
public_key_of(y) ==
    LET uncompressed == from_slice(pk_to_key_slice(y))
    IN  IF ~uncompressed.ok THEN uncompressed
        ELSE from_slice(serialize(uncompressed.pk.key))

\* A bug of execute: the --vss values are parsed before the private key.
execute_vss_first(m) ==
    LET private_key == private_key_of(m)
        parsed      == vss_vec_of(m)
        public_keys == public_keys_of(parsed.vss_vec)
        vss_map     == vss_map_of(parsed.vss_vec)
        idx         == index_of(private_key.key, public_keys)
        shared_keys == verify_vss_and_construct_key(vss_map, idx.index)
        public_key  == public_key_of(shared_keys.y)
    IN  IF m.vss = <<>>
        THEN [response |-> Err("InvalidArgs", "vss is invalid", 0), index |-> 0]
        ELSE IF ~parsed.ok
        THEN [response |-> Err("InvalidSS", "", 0), index |-> 0]
        ELSE IF ~private_key.ok
        THEN [response |-> Err("InvalidArgs", "private-key", 0), index |-> 0]
        ELSE IF ~idx.found
        THEN [response |-> Abort, index |-> 0]
        ELSE IF ~shared_keys.ok
        THEN [response |-> Err(shared_keys.error, "", shared_keys.sender),
              index |-> idx.index]
        ELSE IF ~public_key.ok
        THEN [response |-> Err("InvalidKey", "", 0), index |-> idx.index]
        ELSE [response |-> AggregateResponse_new(public_key.pk, shared_keys.x_i),
              index |-> idx.index]

\* A bug of execute: the contributions that fail the check are dropped and
\* the rest is aggregated.
execute_best_effort(m) ==
    LET private_key == private_key_of(m)
        parsed      == vss_vec_of(m)
        public_keys == public_keys_of(parsed.vss_vec)
        idx         == index_of(private_key.key, public_keys)
        passing     == SelectSeq(parsed.vss_vec,
                           LAMBDA c : validate_share(c.commitments,
                                                     c.shares[idx.index], idx.index))
        shared_keys == verify_vss_and_construct_key(vss_map_of(passing), idx.index)
        public_key  == public_key_of(shared_keys.y)
    IN  IF ~private_key.ok
        THEN [response |-> Err("InvalidArgs", "private-key", 0), index |-> 0]
        ELSE IF m.vss = <<>>
        THEN [response |-> Err("InvalidArgs", "vss is invalid", 0), index |-> 0]
        ELSE IF ~parsed.ok
        THEN [response |-> Err("InvalidSS", "", 0), index |-> 0]
        ELSE IF ~idx.found
        THEN [response |-> Abort, index |-> 0]
        ELSE IF ~public_key.ok
        THEN [response |-> Err("InvalidKey", "", 0), index |-> idx.index]
        ELSE [response |-> AggregateResponse_new(public_key.pk, shared_keys.x_i),
              index |-> idx.index]

\* execute, with the index it handed to the verifier (0: none was computed).
execute(m) ==
    LET private_key == private_key_of(m)
        parsed      == vss_vec_of(m)
        public_keys == public_keys_of(parsed.vss_vec)
        vss_map     == vss_map_of(parsed.vss_vec)
        idx         == index_of(private_key.key, public_keys)
        shared_keys == verify_vss_and_construct_key(vss_map, idx.index)
        public_key  == public_key_of(shared_keys.y)
    IN  IF ~private_key.ok
        THEN [response |-> Err("InvalidArgs", "private-key", 0), index |-> 0]
        ELSE IF m.vss = <<>>
        THEN [response |-> Err("InvalidArgs", "vss is invalid", 0), index |-> 0]
        ELSE IF ~parsed.ok
        THEN [response |-> Err("InvalidSS", "", 0), index |-> 0]
        \* line 70 binds the value of index_of as the index: there is no error
        \* it could return, and a key that is not found ends the run there.
        ELSE IF ~idx.found
        THEN [response |-> Abort, index |-> 0]
        ELSE IF ~shared_keys.ok
        THEN [response |-> Err(shared_keys.error, "", shared_keys.sender),
              index |-> idx.index]
        ELSE IF ~public_key.ok
        THEN [response |-> Err("InvalidKey", "", 0), index |-> idx.index]
        ELSE [response |-> AggregateResponse_new(public_key.pk, shared_keys.x_i),
              index |-> idx.index]

----------------------------------------------------------------------------
(* Display of AggregateResponse                                            *)

HexDigits == <<"0", "1", "2", "3", "4", "5", "6", "7",
               "8", "9", "a", "b", "c", "d", "e", "f">>

\* FE::to_big_int: the number of a scalar given as big-endian hex digits of
\* its 32 bytes; a BigInt has no leading zero digit.
RECURSIVE to_big_int(_)
to_big_int(fe) ==
    IF fe = <<>> THEN <<>>
    ELSE IF Head(fe) = 0 THEN to_big_int(Tail(fe))
    ELSE fe

\* BigInt::to_hex: the digits of the number, "0" for zero.
to_hex(big) ==
    IF big = <<>> THEN <<"0">>
    ELSE [i \in 1..Len(big) |-> HexDigits[big[i] + 1]]

\* A bug of the format ("{:0<64}"): the fill is put on the right.
PadRight(str, width) ==
    IF Len(str) >= width THEN str
    ELSE str \o [i \in 1..(width - Len(str)) |-> "0"]

\* "{:0>width}": fill with "0" on the left up to the width, never cut.
PadLeft(str, width) ==
    IF Len(str) >= width THEN str
    ELSE [i \in 1..(width - Len(str)) |-> "0"] \o str

ByteHex(b) == <<HexDigits[(b \div 16) + 1], HexDigits[(b % 16) + 1]>>

RECURSIVE BytesHex(_)
BytesHex(bytes) ==
    IF bytes = <<>> THEN <<>> ELSE ByteHex(Head(bytes)) \o BytesHex(Tail(bytes))

\* Display of PublicKey: the hex of its encoding, compressed or not.
PublicKeyDisplay(pk) ==
    BytesHex(IF pk.compressed THEN serialize(pk.key) ELSE serialize_uncompressed(pk.key))

\* impl fmt::Display for AggregateResponse
fmt(r) ==
    LET secret == PadLeft(to_hex(to_big_int(r.node_shared_secret)), HexWidth)
    IN  PublicKeyDisplay(r.aggregated_public_key) \o <<" ">> \o secret

----------------------------------------------------------------------------
(* Inputs                                                                  *)

\* The secrets of the signers that contribute, and of the local signers.
SenderSecrets == {1, 2, 3}

LocalSecrets == ValidPoints

\* The string "x", and a WIF string with a wrong checksum.
BadPrivateKeyArgs == {<<120>>, <<128, 1, 1, WifChecksum(2)>>}

PrivateKeyArgs == {ToWif(k) : k \in LocalSecrets} \cup BadPrivateKeyArgs

\* The secret polynomials a sender may draw: <<a0, a1>>.
Polys == {<<1, 1>>, <<1, 2>>, <<4, 1>>}

\* The contribution of the sender with secret sk and polynomial poly, as the
\* --vss string: the share owed to index bad (if any) is off by one.
DealtVss(sk, poly, bad) ==
    [sender |-> serialize(ScalarMul(Generator, sk)),
     commitments |-> [k \in 1..Len(poly) |-> serialize(ScalarMul(Generator, poly[k]))],
     shares |-> [i \in 1..MaxVss |->
                    IF i = bad THEN ScalarAdd(Horner(poly, i), 1) ELSE Horner(poly, i)]]

\* The string "x".
GarbageVss == [sender |-> <<120>>, commitments |-> <<>>, shares |-> <<>>]

WellFormedArgs == {DealtVss(sk, poly, bad) : sk \in SenderSecrets, poly \in Polys,
                                              bad \in 0..MaxVss}

VssArgs == WellFormedArgs \cup {GarbageVss}

\* One contribution per participant: the well-formed strings of a list have
\* different senders.
VssArgLists ==
    {l \in UNION {[1..n -> VssArgs] : n \in 0..MaxVss} :
        \A i, j \in 1..Len(l) :
            (i # j /\ l[i] # GarbageVss /\ l[j] # GarbageVss)
                => l[i].sender # l[j].sender}

NoRun == [response |-> NoResponse, index |-> 0]

\* The big-endian hex digits of a 32-byte scalar: z zero digits, then d's.
ScalarDigits(z, d) == [i \in 1..HexWidth |-> IF i <= z THEN 0 ELSE d]

DisplayScalars == {ScalarDigits(z, d) : z \in 0..HexWidth, d \in {1, 10, 15}}

DisplayKeys == {[compressed |-> c, key |-> P] : c \in BOOLEAN, P \in ValidPoints}

----------------------------------------------------------------------------
(* The command line run                                                    *)

Init ==
    /\ matches \in [private_key : PrivateKeyArgs, vss : VssArgLists]
    /\ response = NoResponse
    /\ index = 0
    /\ previous = NoRun
    /\ display_response = NoResponse
    /\ display_text = <<>>

\* AggregateCommand::execute(matches)
Execute ==
    /\ response.kind = "None"
    /\ response' = execute(matches).response
    /\ index' = execute(matches).index
    /\ UNCHANGED <<matches, previous, display_response, display_text>>

\* The command is given again with the same --private-key and the --vss
\* values in another order.
Reorder ==
    /\ response.kind # "None"
    /\ previous = NoRun
    /\ \E p \in Permutations(1..Len(matches.vss)) :
          /\ \E i \in 1..Len(matches.vss) : p[i] # i
          /\ matches' = [matches EXCEPT !.vss = [i \in 1..Len(matches.vss) |->
                                                    matches.vss[p[i]]]]
    /\ previous' = [response |-> response, index |-> index]
    /\ response' = NoResponse
    /\ index' = 0
    /\ UNCHANGED <<display_response, display_text>>

Next == Execute \/ Reorder

Spec == Init /\ [][Next]_vars

----------------------------------------------------------------------------
(* Rendering a response                                                    *)

InitDisplay ==
    /\ matches = [private_key |-> <<>>, vss |-> <<>>]
    /\ response = NoResponse
    /\ index = 0
    /\ previous = NoRun
    /\ display_response \in {AggregateResponse_new(pk, s) :
                                 pk \in DisplayKeys, s \in DisplayScalars}
    /\ display_text = <<>>

\* format!("{}", response)
Fmt ==
    /\ display_text = <<>>
    /\ display_text' = fmt(display_response)
    /\ UNCHANGED <<matches, response, index, previous, display_response>>

NextDisplay == Fmt

SpecDisplay == InitDisplay /\ [][NextDisplay]_vars

----------------------------------------------------------------------------
(* What a run was given, read off the argument strings                     *)

Done == response.kind # "None"

NumVss == Len(matches.vss)

KeyDecodes == matches.private_key \notin BadPrivateKeyArgs

AllWellFormed ==
    /\ matches.vss # <<>>
    /\ \A i \in 1..NumVss : matches.vss[i] # GarbageVss

\* The compressed encoding of the public key of the local private key.
LocalKeyBytes == serialize(ScalarMul(Generator, matches.private_key[2]))

SenderBytes == {matches.vss[i].sender : i \in 1..NumVss}

LocalKeyPresent == LocalKeyBytes \in SenderBytes

\* The place of the local key among the sender keys in byte order.
Rank == 1 + Cardinality({e \in SenderBytes : LexLess(e, LocalKeyBytes)})

Aggregable == KeyDecodes /\ AllWellFormed /\ LocalKeyPresent

RECURSIVE Pow(_, _)
Pow(x, k) == IF k = 0 THEN 1 ELSE x * Pow(x, k - 1)

RECURSIVE SumTo(_, _)
SumTo(f, n) == IF n = 0 THEN 0 ELSE f[n] + SumTo(f, n - 1)

\* The point of the k-th commitment of the i-th contribution.
CommitmentOf(i, k) ==
    CHOOSE P \in ValidPoints : serialize(P) = matches.vss[i].commitments[k]

\* The Feldman relation of the i-th contribution at index x.
PassesCheck(i, x) ==
    LET c == matches.vss[i].commitments
    IN  matches.vss[i].shares[x] % GroupOrder
          = SumTo([k \in 1..Len(c) |-> CommitmentOf(i, k) * Pow(x, k - 1)], Len(c))
                % GroupOrder

AllPass == \A i \in 1..NumVss : PassesCheck(i, Rank)

\* The plain sums of the shares owed to the local index and of the
\* constant-term commitments.
ShareSum == SumTo([i \in 1..NumVss |-> matches.vss[i].shares[Rank]], NumVss)

ConstantTermSum == SumTo([i \in 1..NumVss |-> CommitmentOf(i, 1)], NumVss)

IsInvalidShare == response.kind = "Err" /\ response.error = "InvalidShare"

----------------------------------------------------------------------------
(* Claims                                                                  *)

C5_KeyNotFoundReturned ==
    (Done /\ KeyDecodes /\ AllWellFormed /\ ~LocalKeyPresent) =>
        (response.kind = "Err" /\ response.error = "KeyNotFound")

\* C6: a --private-key value that does not decode makes execute return
\* InvalidArgs("private-key"), whatever the contributions are.
C6_InvalidPrivateKeyFirst ==
    (Done /\ ~KeyDecodes) => response = Err("InvalidArgs", "private-key", 0)

\* An undecodable private key together with a --vss value that does not parse.
C6_Witness ==
    /\ Done /\ ~KeyDecodes
    /\ \E i \in 1..NumVss : matches.vss[i] = GarbageVss
    /\ response.error = "InvalidArgs"

\* C7: with a private key that decodes, one --vss value that does not parse
\* makes execute return InvalidSS, at any place of the list, and no index is
\* resolved.
C7_InvalidSSOnMalformed ==
    (Done /\ KeyDecodes /\ \E i \in 1..NumVss : matches.vss[i] = GarbageVss) =>
        (response = Err("InvalidSS", "", 0) /\ index = 0)

\* A well-formed first value followed by a last one that does not parse.
C7_Witness ==
    /\ Done /\ KeyDecodes /\ NumVss >= 2
    /\ matches.vss[1] # GarbageVss
    /\ matches.vss[NumVss] = GarbageVss
    /\ response.error = "InvalidSS"

\* C8: the rendering is the public key, one space, and the scalar as exactly
\* 64 hex characters whose value is the scalar, zero-filled on the left.
C8_RenderingPadded ==
    display_text # <<>> =>
        LET key  == PublicKeyDisplay(display_response.aggregated_public_key)
            klen == Len(key)
        IN  /\ Len(display_text) = klen + 1 + HexWidth
            /\ SubSeq(display_text, 1, klen) = key
            /\ display_text[klen + 1] = " "
            /\ \A i \in 1..HexWidth :
                   display_text[klen + 1 + i]
                     = HexDigits[display_response.node_shared_secret[i] + 1]

\* The rendering of a nonzero scalar with leading zero digits.
C8_Witness ==
    /\ display_text # <<>>
    /\ display_response.node_shared_secret[1] = 0
    /\ display_response.node_shared_secret[HexWidth] # 0

\* C9: the key of a returned response is in compressed form, and a sum that
\* cannot be encoded as a key gives the InvalidKey error.
C9_ResponseKeyCompressed ==
    Done =>
        /\ response.kind = "Ok" =>
              /\ response.aggregated_public_key.compressed
              /\ response.aggregated_public_key.key \in ValidPoints
        /\ (Aggregable /\ AllPass /\ ConstantTermSum % GroupOrder = 0) =>
              (response.kind = "Err" /\ response.error = "InvalidKey")

\* A successful run whose key has an odd y.
C9_Witness ==
    /\ response.kind = "Ok"
    /\ response.aggregated_public_key.compressed
    /\ serialize(response.aggregated_public_key.key)[1] = 3

\* C10: when the local key is a sender key, the index handed to the verifier
\* is the place of the key in the sorted sender keys, lies in 1..N, and is the
\* index of no other sender key.
C10_IndexIsSortedPosition ==
    Done =>
        /\ Aggregable => (index = Rank /\ index \in 1..NumVss)
        /\ index # 0 =>
              \A k \in LocalSecrets :
                  ToWif(k) # matches.private_key =>
                      index_of(k, public_keys_of(vss_vec_of(matches).vss_vec)).index
                          # index

\* A run whose local key is last in the sorted order and first in the list.
C10_Witness ==
    /\ Done /\ Aggregable /\ NumVss >= 2
    /\ matches.vss[1].sender = LocalKeyBytes
    /\ index = NumVss

====
